---- MODULE Spec2Model ----
(***************************************************************************)
(* sdcpy-map: the per-gridpoint scan-and-summarize core                    *)
(* (src/src/sdcpy_map/layers.py), the driver alignment and the cache-first *)
(* download (src/src/sdcpy_map/datasets.py).                               *)
(*                                                                         *)
(* Floating-point numbers are modelled as extended rationals <<num, den>>  *)
(* in lowest terms: den > 0 is a finite number, <<0,0>> is NaN, <<1,0>>    *)
(* and <<-1,0>> are +inf and -inf.  Arithmetic is exact; IEEE rounding is  *)
(* not modelled.                                                           *)
(*                                                                         *)
(* The correlation engine (sdcpy.compute_sdc) is an external black box:    *)
(* each call returns an arbitrary table drawn from EngineTables.           *)
(***************************************************************************)
EXTENDS Integers, Sequences, FiniteSets, TLC

VARIABLES
    \* compute_sdcmap_layers: arguments
    config,          \* SDCMapConfig fields used by the scan
    driver,          \* pd.Series: function from its timestamps to values
    mapped_field,    \* [time: Seq(timestamp), sizes: <<nlat, nlon>>, vals: cell -> Seq(value)]
    sst_anom,        \* the alias of mapped_field; an argument not supplied is None
    mapped_field_arg, \* mapped_field as the caller passed it (line 123 rebinds it)
    \* compute_sdcmap_layers: locals
    pc,              \* "idle" | "entry" | "arg_error" | "call" | "scan" | "done" | "error"
    driver_vals,     \* driver aligned on the field's calendar
    peak_idx,        \* 0-based position of the peak reference
    cell,            \* <<i, j>> of the next gridpoint of the nested loop
    layers,          \* key -> (cell -> value), the eight output arrays
    local_vals,      \* the column read at line 154
    summary,         \* the dict returned for it, NoSummary for None
    visited,         \* sequence of the <<i, j>> the loop has evaluated
    \* observation of the external engine
    engine_calls,    \* sequence of the <<i, j>> for which compute_sdc ran
    engine_args,     \* arguments of the last compute_sdc call
    \* a stand-alone call of _summarize_gridpoint
    s_pc,            \* "idle" | "input" | "returned"
    s_args,          \* [driver_vals, local_vals, config, peak_idx]
    s_table,         \* the table compute_sdc returns if it is called
    s_result,        \* [invoked, sdc, picked, summary]
    \* a stand-alone call of _pick_top_extremes
    p_pc,            \* "idle" | "input" | "returned"
    p_sdc,
    p_peak_idx,
    p_top_fraction,
    p_result,
    \* a stand-alone call of align_driver_to_field (datasets.py)
    a_pc,            \* "idle" | "input" | "returned" | "raised"
    a_driver,        \* pd.Series: function from its timestamps to values
    a_index,         \* mapped_field.time.values
    a_result,        \* the series returned, NoSeries when it raised
    \* the gridpoints of compute_sdcmap_layers evaluated in an arbitrary order
    o_engine,        \* cell -> the table compute_sdc returns for that gridpoint
    o_pending,       \* cell -> [evaluated, summary, written]: progress of its loop body
    \* a call of download_if_missing (datasets.py)
    d_pc,            \* "idle" | "start" | "head" | "curl" | "urllib" | "returned" | "raised"
    d_args,          \* [refresh, verify_remote, offline]
    d_file,          \* the destination file: [exists, size, data]
    d_file0,         \* the destination file when the call was made
    d_curl_installed, \* whether a curl executable is on the PATH
    d_attempt,       \* attempt (line 146) or idx (line 162) of the running retry loop
    d_remote_size,   \* remote_size of lines 118-120, None when unknown
    d_log,           \* the network operations made so far: [op, outcome, non_empty]
    d_error          \* the exception that ended the call, "none" otherwise

main_vars == <<config, driver, mapped_field, sst_anom, mapped_field_arg, pc,
               driver_vals, peak_idx, cell, layers, local_vals, summary,
               visited, engine_calls, engine_args>>
sum_vars == <<s_pc, s_args, s_table, s_result>>
pick_vars == <<p_pc, p_sdc, p_peak_idx, p_top_fraction, p_result>>
align_vars == <<a_pc, a_driver, a_index, a_result>>
order_vars == <<o_engine, o_pending>>
dl_vars == <<d_pc, d_args, d_file, d_file0, d_curl_installed, d_attempt,
             d_remote_size, d_log, d_error>>
vars == <<main_vars, sum_vars, pick_vars, align_vars, order_vars, dl_vars>>

\* what the actions of one specification leave alone
not_scan == <<sum_vars, pick_vars, align_vars, dl_vars>>
not_main == <<not_scan, order_vars>>
not_sum == <<main_vars, pick_vars, align_vars, order_vars, dl_vars>>
not_pick == <<main_vars, sum_vars, align_vars, order_vars, dl_vars>>
not_align == <<main_vars, sum_vars, pick_vars, order_vars, dl_vars>>
not_download == <<main_vars, sum_vars, pick_vars, align_vars, order_vars>>

-----------------------------------------------------------------------------
(* Bounds of the model                                                     *)

\* number of timestamps of the mapped field
NTime == 5
\* longest table the engine returns to the scan
MaxRows == 4
\* longest table handed to the stand-alone _pick_top_extremes
MaxPickRows == 5
\* largest size, in bytes, of a destination file
MaxFileSize == 2

-----------------------------------------------------------------------------
(* Floating-point values as extended rationals                             *)

Abs(n) == IF n < 0 THEN -n ELSE n

RECURSIVE GCD(_, _)
GCD(a, b) == IF b = 0 THEN a ELSE GCD(b, a % b)

\* the rational n/d, d > 0, in lowest terms
Rat(n, d) == LET g == GCD(Abs(n), d) IN <<n \div g, d \div g>>

NaN == <<0, 0>>
PosInf == <<1, 0>>
NegInf == <<-1, 0>>
FromInt(n) == <<n, 1>>
Zero == FromInt(0)

\* np.isfinite, np.isnan
IsFinite(x) == x[2] > 0
IsNaN(x) == x = NaN

\* a < b, False whenever an operand is NaN
Lt(a, b) ==
    /\ ~IsNaN(a)
    /\ ~IsNaN(b)
    /\ IF a[2] = 0 /\ b[2] = 0 THEN a[1] < b[1]
       ELSE a[1] * b[2] < b[1] * a[2]
Le(a, b) == ~IsNaN(a) /\ ~IsNaN(b) /\ ~Lt(b, a)

Add(a, b) ==
    IF IsFinite(a) /\ IsFinite(b) THEN Rat(a[1] * b[2] + b[1] * a[2], a[2] * b[2])
    ELSE IF IsNaN(a) \/ IsNaN(b) THEN NaN
    ELSE IF IsFinite(a) THEN b
    ELSE IF IsFinite(b) THEN a
    ELSE IF a = b THEN a ELSE NaN
Neg(a) == <<-a[1], a[2]>>
Sub(a, b) == Add(a, Neg(b))
RatAbs(a) == <<Abs(a[1]), a[2]>>
\* a / n for a positive integer n
DivInt(a, n) == IF IsFinite(a) THEN Rat(a[1], a[2] * n) ELSE a

RECURSIVE Sum(_)
Sum(xs) == IF xs = <<>> THEN Zero ELSE Add(Head(xs), Sum(Tail(xs)))

\* np.mean, np.max, np.min of a non-empty array of finite values
Mean(xs) == DivInt(Sum(xs), Len(xs))
Max(xs) == CHOOSE m \in {xs[k] : k \in 1..Len(xs)} :
               \A k \in 1..Len(xs) : Le(xs[k], m)
Min(xs) == CHOOSE m \in {xs[k] : k \in 1..Len(xs)} :
               \A k \in 1..Len(xs) : Le(m, xs[k])

\* the product rounded up instead of down
FloorMul_RoundsUp(n, f) == (n * f[1] + f[2] - 1) \div f[2]

\* math.floor(n * f) for a count n and a fraction f > 0
FloorMul(n, f) == (n * f[1]) \div f[2]

Column(rows, key) == [k \in 1..Len(rows) |-> rows[k][key]]
Remove(rows, k) == [m \in 1..(Len(rows) - 1) |-> IF m < k THEN rows[m] ELSE rows[m + 1]]

-----------------------------------------------------------------------------
(* _pick_top_extremes                                                      *)

\* DataFrame.nlargest(n, "r"): the n rows of largest r in descending order,
\* the earlier row first among equal r (keep="first")
RECURSIVE nlargest(_, _)
nlargest(n, rows) ==
    IF n <= 0 \/ rows = <<>> THEN <<>>
    ELSE LET k == CHOOSE k \in 1..Len(rows) :
                      /\ \A m \in 1..Len(rows) : ~Lt(rows[k].r, rows[m].r)
                      /\ \A m \in 1..(k - 1) : Lt(rows[m].r, rows[k].r)
         IN <<rows[k]>> \o nlargest(n - 1, Remove(rows, k))

\* a selection from the wrong end
nsmallest_TakesLargest(n, rows) == nlargest(n, rows)

\* DataFrame.nsmallest(n, "r")
RECURSIVE nsmallest(_, _)
nsmallest(n, rows) ==
    IF n <= 0 \/ rows = <<>> THEN <<>>
    ELSE LET k == CHOOSE k \in 1..Len(rows) :
                      /\ \A m \in 1..Len(rows) : ~Lt(rows[m].r, rows[k].r)
                      /\ \A m \in 1..(k - 1) : Lt(rows[k].r, rows[m].r)
         IN <<rows[k]>> \o nsmallest(n - 1, Remove(rows, k))

\* a partition that counts r == 0 as positive
IsPos_IncludesZero(row) == Le(Zero, row.r)

\* sdc["r"] > 0, sdc["r"] < 0
IsPos(row) == Lt(Zero, row.r)
IsNeg(row) == Lt(row.r, Zero)

\* sel["driver_rel_start"] = sel["start_1"] - peak_idx
WithRelStart(rows, pk) ==
    [k \in 1..Len(rows) |->
        [start_1 |-> rows[k].start_1, lag |-> rows[k].lag, r |-> rows[k].r,
         p_value |-> rows[k].p_value,
         driver_rel_start |-> rows[k].start_1 - pk]]

\* the None result
NoPick == [sign |-> "none", selected |-> <<>>]

\* a key that ranks the candidates by their number of rows
MeanAbsKey_RowCount(selected) == FromInt(Len(selected))

\* abs(item[1]["r"].mean())
MeanAbsKey(selected) == RatAbs(Mean(Column(selected, "r")))

\* the minimum count of a qualifying group
MinCount == 2

\* a selection whose max() keeps the last of two equal keys
_pick_top_extremes_LastMaxWins(table, pk, top_fraction) ==
    LET pos == SelectSeq(table, IsPos)
        neg == SelectSeq(table, IsNeg)
        cpos == FloorMul(Len(pos), top_fraction)
        cneg == FloorMul(Len(neg), top_fraction)
        sel_pos == WithRelStart(nlargest(cpos, pos), pk)
        sel_neg == WithRelStart(nsmallest(cneg, neg), pk)
        candidates ==
            (IF cpos >= MinCount THEN <<[sign |-> "pos", selected |-> sel_pos]>> ELSE <<>>)
            \o (IF cneg >= MinCount THEN <<[sign |-> "neg", selected |-> sel_neg]>> ELSE <<>>)
    IN  IF candidates = <<>> THEN NoPick
        ELSE IF Len(candidates) = 1 THEN candidates[1]
        ELSE IF Le(MeanAbsKey(candidates[1].selected), MeanAbsKey(candidates[2].selected))
             THEN candidates[2]
             ELSE candidates[1]

\* lines 16-46
_pick_top_extremes(table, pk, top_fraction) ==
    LET pos == SelectSeq(table, IsPos)
        neg == SelectSeq(table, IsNeg)
        cpos == FloorMul(Len(pos), top_fraction)
        cneg == FloorMul(Len(neg), top_fraction)
        sel_pos == WithRelStart(nlargest(cpos, pos), pk)
        sel_neg == WithRelStart(nsmallest(cneg, neg), pk)
        candidates ==
            (IF cpos >= MinCount THEN <<[sign |-> "pos", selected |-> sel_pos]>> ELSE <<>>)
            \o (IF cneg >= MinCount THEN <<[sign |-> "neg", selected |-> sel_neg]>> ELSE <<>>)
    IN  IF candidates = <<>> THEN NoPick
        ELSE IF Len(candidates) = 1 THEN candidates[1]
        \* max(): the first candidate unless the second key is strictly larger
        ELSE IF Lt(MeanAbsKey(candidates[1].selected), MeanAbsKey(candidates[2].selected))
             THEN candidates[2]
             ELSE candidates[1]

-----------------------------------------------------------------------------
(* _summarize_gridpoint                                                    *)

LayerKeys == {"corr_mean", "driver_rel_time_mean", "lag_mean", "timing_combo",
              "strong_span", "strong_start", "dominant_sign", "n_selected"}

\* the None result
NoSummary == [none |-> TRUE]

\* the samples a series needs beyond fragment_size
MinExtraSamples == 3

\* np.sum(np.isfinite(vals))
CountFinite(vals) == Len(SelectSeq(vals, IsFinite))

\* np.nanstd(vals) == 0: the deviation of the non-NaN samples; it is NaN, not
\* 0, when every sample is NaN or when an infinite sample is among them
NanStdIsZero(vals) ==
    LET NotNaN(x) == ~IsNaN(x)
        xs == SelectSeq(vals, NotNaN)
    IN  /\ xs # <<>>
        /\ \A k \in 1..Len(xs) : IsFinite(xs[k]) /\ xs[k] = xs[1]

AnyNaN(vals) == \E k \in 1..Len(vals) : IsNaN(vals[k])

\* the filter without the missing-value test of line 61
PassesValidity_NoNaNTest(dvals, lvals, cfg) ==
    /\ ~(CountFinite(lvals) < cfg.fragment_size + MinExtraSamples)
    /\ ~NanStdIsZero(lvals)

\* the filter without the sample-count test of lines 57-58
PassesValidity_NoCountTest(dvals, lvals, cfg) ==
    /\ ~NanStdIsZero(lvals)
    /\ ~(AnyNaN(lvals) \/ AnyNaN(dvals))

\* lines 57-62: the series is handed to the engine
PassesValidity(dvals, lvals, cfg) ==
    /\ ~(CountFinite(lvals) < cfg.fragment_size + MinExtraSamples)
    /\ ~NanStdIsZero(lvals)
    /\ ~(AnyNaN(lvals) \/ AnyNaN(dvals))

\* a filter that keeps the finite rows whatever their p_value
Significant_IgnoresAlpha(row, alpha) ==
    IsFinite(row.r) /\ IsFinite(row.p_value)

\* lines 76-77
Significant(row, alpha) ==
    /\ IsFinite(row.r) /\ IsFinite(row.p_value)
    /\ Le(row.p_value, alpha)
SignificanceFilter(table, alpha) ==
    LET Keep(row) == Significant(row, alpha) IN SelectSeq(table, Keep)

\* a difference instead of the sum; the maximum instead of the minimum
TimingCombo_Difference(rel, lag) == Sub(Mean(rel), Mean(lag))
StrongStart_TakesMax(rel) == Max(rel)

\* lines 96-98
TimingCombo(rel, lag) == Add(Mean(rel), Mean(lag))
StrongSpan(rel) == Sub(Max(rel), Min(rel))
StrongStart(rel) == Min(rel)

\* lines 88-101
Summarize(selected, sign) ==
    LET rel == [k \in 1..Len(selected) |-> FromInt(selected[k].driver_rel_start)]
        lag == [k \in 1..Len(selected) |-> FromInt(selected[k].lag)]
        r == Column(selected, "r")
    IN  [corr_mean |-> Mean(r),
         driver_rel_time_mean |-> Mean(rel),
         lag_mean |-> Mean(lag),
         timing_combo |-> TimingCombo(rel, lag),
         strong_span |-> StrongSpan(rel),
         strong_start |-> StrongStart(rel),
         dominant_sign |-> IF sign = "pos" THEN FromInt(1) ELSE FromInt(-1),
         n_selected |-> FromInt(Len(selected))]

\* table is what compute_sdc returns if it is called
_summarize_gridpoint(dvals, lvals, cfg, pk, table) ==
    IF ~PassesValidity(dvals, lvals, cfg)
    THEN [invoked |-> FALSE, table |-> <<>>, sdc |-> <<>>, picked |-> NoPick,
          summary |-> NoSummary]
    ELSE LET filtered == SignificanceFilter(table, cfg.alpha)
             pick == IF filtered = <<>> THEN NoPick
                     ELSE _pick_top_extremes(filtered, pk, cfg.top_fraction)
         IN  [invoked |-> TRUE, table |-> table, sdc |-> filtered, picked |-> pick,
              summary |-> IF pick = NoPick THEN NoSummary
                          ELSE Summarize(pick.selected, pick.sign)]

-----------------------------------------------------------------------------
(* Inputs                                                                  *)

Row(s, l, r, p) == [start_1 |-> s, lag |-> l, r |-> r, p_value |-> p]

\* the rows the engine draws from, in the manner of the mocked table of
\* tests/test_layers.py: three positive and two negative significant rows
\* (one of them with p_value equal to alpha), then a row with p_value above
\* alpha, a row with r NaN, a row with p_value NaN and a row with r == 0
EnginePool ==
    << Row(0, 0, Rat(9, 10), Rat(1, 100)),
       Row(6, 1, Rat(7, 10), Rat(1, 100)),
       Row(7, 2, Rat(4, 10), Rat(5, 100)),
       Row(2, 0, Rat(-6, 10), Rat(2, 100)),
       Row(8, 3, Rat(-2, 10), Rat(2, 100)),
       Row(3, -2, Rat(95, 100), Rat(6, 100)),
       Row(4, 1, NaN, Rat(1, 100)),
       Row(4, 1, Rat(-8, 10), NaN),
       Row(1, 0, Zero, Rat(1, 100)) >>

RECURSIVE PoolRows(_)
PoolRows(S) ==
    IF S = {} THEN <<>>
    ELSE LET m == CHOOSE m \in S : \A n \in S : m <= n
         IN <<EnginePool[m]>> \o PoolRows(S \ {m})

\* the tables compute_sdc may return: rows of the pool, in the pool's order
EngineTables ==
    {PoolRows(S) : S \in {S \in SUBSET (1..Len(EnginePool)) : Cardinality(S) <= MaxRows}}

\* SDCMapConfig: fragment_size, alpha, top_fraction, peak_date; the largest
\* fragment_size is longer than the series
Configs ==
    [fragment_size : {1, 2, NTime + 1},
     alpha : {Rat(5, 100)},
     top_fraction : {Rat(3, 4), Rat(1, 1)},
     peak_date : {25, 40}]

\* the timestamps of the mapped field, in order
Calendar == [k \in 1..NTime |-> 10 * k]
CalendarSet == {Calendar[k] : k \in 1..NTime}

\* the (nlat, nlon) shapes of the mapped field
GridShapes == {<<1, 2>>, <<2, 1>>}
CellsOf(shape) == (0..(shape[1] - 1)) \X (0..(shape[2] - 1))

\* the columns a gridpoint may hold
Ramp == [k \in 1..NTime |-> FromInt(k)]
Const == [k \in 1..NTime |-> Zero]
WithPrefix(base, x, n) == [k \in 1..NTime |-> IF k <= n THEN x ELSE base[k]]
LocalSeries ==
    {Ramp, Const, WithPrefix(Const, NaN, 1)}
    \cup {WithPrefix(Ramp, x, n) : x \in {NaN, PosInf}, n \in 1..2}

MappedFields ==
    UNION {[time : {Calendar}, sizes : {shape}, vals : [CellsOf(shape) -> LocalSeries]] :
             shape \in GridShapes}

\* the driver series: covering the calendar, one timestamp short (as in
\* tests/test_layers.py), holding a NaN, holding an infinity
DriverFull == [t \in CalendarSet |-> FromInt(t)]
Drivers ==
    {DriverFull,
     [t \in CalendarSet \ {Calendar[NTime]} |-> FromInt(t)],
     [DriverFull EXCEPT ![Calendar[1]] = NaN],
     [DriverFull EXCEPT ![Calendar[1]] = PosInf]}

-----------------------------------------------------------------------------
(* compute_sdcmap_layers                                                   *)

\* a reindex that fills a missing timestamp with 0 instead of NaN
Reindex_FillsZero(series, index) ==
    [k \in 1..Len(index) |->
        IF index[k] \in DOMAIN series THEN series[index[k]] ELSE Zero]

\* driver.reindex(index)
Reindex(series, index) ==
    [k \in 1..Len(index) |->
        IF index[k] \in DOMAIN series THEN series[index[k]] ELSE NaN]

\* an argmin that keeps the last position of the minimum
ArgMinAbs_LastOnTies(index, peak_date) ==
    LET d(k) == Abs(index[k] - peak_date)
        k0 == CHOOSE k \in 1..Len(index) :
                  /\ \A m \in 1..Len(index) : d(k) <= d(m)
                  /\ \A m \in (k + 1)..Len(index) : d(m) > d(k)
    IN  k0 - 1

\* int(np.argmin(np.abs(index - peak_date))): the first position of the minimum
ArgMinAbs(index, peak_date) ==
    LET d(k) == Abs(index[k] - peak_date)
        k0 == CHOOSE k \in 1..Len(index) :
                  /\ \A m \in 1..Len(index) : d(k) <= d(m)
                  /\ \A m \in 1..(k - 1) : d(m) > d(k)
    IN  k0 - 1

\* np.full((nlat, nlon), np.nan) for each of the eight keys
EmptyLayers(shape) == [key \in LayerKeys |-> [c \in CellsOf(shape) |-> NaN]]
Unallocated == [key \in LayerKeys |-> <<>>]

\* the position after (i, j) in the nested loop of lines 152-153
NextCell(c, shape) ==
    IF c[2] + 1 < shape[2] THEN <<c[1], c[2] + 1>> ELSE <<c[1] + 1, 0>>
LoopDone(c, shape) == c[1] >= shape[1]

\* a write that leaves n_selected out
WriteSummary_SkipsCount(lay, c, summ) ==
    [key \in LayerKeys |->
        IF key \in DOMAIN summ /\ key # "n_selected"
        THEN [lay[key] EXCEPT ![c] = summ[key]] ELSE lay[key]]

\* for key, value in summary.items(): layers[key][i, j] = value
WriteSummary(lay, c, summ) ==
    [key \in LayerKeys |->
        IF key \in DOMAIN summ THEN [lay[key] EXCEPT ![c] = summ[key]] ELSE lay[key]]

NoArgs == [driver_vals |-> <<>>, local_vals |-> <<>>]

\* an argument left at its default
None == [none |-> TRUE]

MainIdle ==
    /\ config = [fragment_size |-> 1, alpha |-> Rat(5, 100),
                 top_fraction |-> Rat(1, 1), peak_date |-> 0]
    /\ driver = <<>>
    /\ mapped_field = [time |-> <<>>, sizes |-> <<0, 0>>, vals |-> <<>>]
    /\ sst_anom = None
    /\ mapped_field_arg = None
    /\ pc = "idle"
    /\ driver_vals = <<>>
    /\ peak_idx = 0
    /\ cell = <<0, 0>>
    /\ layers = Unallocated
    /\ local_vals = <<>>
    /\ summary = NoSummary
    /\ visited = <<>>
    /\ engine_calls = <<>>
    /\ engine_args = NoArgs

NoResult == [invoked |-> FALSE, table |-> <<>>, sdc |-> <<>>, picked |-> NoPick,
             summary |-> NoSummary]

SumIdle ==
    /\ s_pc = "idle"
    /\ s_args = [driver_vals |-> <<>>, local_vals |-> <<>>,
                 config |-> [fragment_size |-> 1, alpha |-> Rat(5, 100),
                             top_fraction |-> Rat(1, 1), peak_date |-> 0],
                 peak_idx |-> 0]
    /\ s_table = <<>>
    /\ s_result = NoResult

PickIdle ==
    /\ p_pc = "idle"
    /\ p_sdc = <<>>
    /\ p_peak_idx = 0
    /\ p_top_fraction = Rat(1, 1)
    /\ p_result = NoPick

NoSeries == [index |-> <<>>, values |-> <<>>]

AlignIdle ==
    /\ a_pc = "idle"
    /\ a_driver = <<>>
    /\ a_index = <<>>
    /\ a_result = NoSeries

OrderIdle ==
    /\ o_engine = <<>>
    /\ o_pending = <<>>

\* remote_size = None
UnknownSize == [known |-> FALSE, size |-> 0]

\* no destination file
NoFile == [exists |-> FALSE, size |-> 0, data |-> "none"]

DownloadIdle ==
    /\ d_pc = "idle"
    /\ d_args = [refresh |-> FALSE, verify_remote |-> FALSE, offline |-> FALSE]
    /\ d_file = NoFile
    /\ d_file0 = NoFile
    /\ d_curl_installed = FALSE
    /\ d_attempt = 0
    /\ d_remote_size = UnknownSize
    /\ d_log = <<>>
    /\ d_error = "none"

\* the fields passed through the alias: one row of two cells, one column
\* varying and one constant
AliasFields ==
    {f \in MappedFields :
        /\ f.sizes = <<1, 2>>
        /\ {f.vals[c] : c \in CellsOf(f.sizes)} = {Ramp, Const}}

\* (mapped_field, sst_anom) as a caller passes them: the field by name, the
\* field through the alias (tests/test_layers.py line 75), both, neither
FieldArgs ==
    {<<f, None>> : f \in MappedFields}
    \cup {<<None, f>> : f \in AliasFields}
    \cup {<<f, g>> \in AliasFields \X AliasFields : f # g}
    \cup {<<None, None>>}

Init ==
    /\ config \in Configs \cup {None}
    /\ driver \in Drivers
    /\ \E a \in FieldArgs :
         /\ mapped_field = a[1]
         /\ sst_anom = a[2]
         /\ mapped_field_arg = a[1]
    /\ pc = "entry"
    /\ driver_vals = <<>>
    /\ peak_idx = 0
    /\ cell = <<0, 0>>
    /\ layers = Unallocated
    /\ local_vals = <<>>
    /\ summary = NoSummary
    /\ visited = <<>>
    /\ engine_calls = <<>>
    /\ engine_args = NoArgs
    /\ SumIdle
    /\ PickIdle
    /\ AlignIdle
    /\ OrderIdle
    /\ DownloadIdle

\* an argument resolution that never looks at the alias
ResolveField_IgnoresAlias(field, alias) == field

\* lines 122-123
ResolveField(field, alias) == IF field = None THEN alias ELSE field

\* lines 124-127
ArgsRejected(field, cfg) == field = None \/ cfg = None

\* lines 122-127: the argument checks
Enter ==
    /\ pc = "entry"
    /\ \E field \in {ResolveField(mapped_field, sst_anom)} :
         /\ mapped_field' = field
         /\ pc' = IF ArgsRejected(field, config) THEN "arg_error" ELSE "call"
    /\ UNCHANGED <<config, driver, sst_anom, mapped_field_arg, driver_vals,
                   peak_idx, cell, layers, local_vals, summary, visited,
                   engine_calls, engine_args>>
    /\ UNCHANGED not_main

\* lines 129-150: alignment, peak resolution, allocation
Align ==
    /\ pc = "call"
    /\ LET index == mapped_field.time
           aligned == Reindex(driver, index)
       IN  IF AnyNaN(aligned)
           THEN /\ pc' = "error"
                /\ UNCHANGED <<driver_vals, peak_idx, layers, cell>>
           ELSE /\ pc' = "scan"
                /\ peak_idx' = ArgMinAbs(index, config.peak_date)
                /\ driver_vals' = aligned
                /\ layers' = EmptyLayers(mapped_field.sizes)
                /\ cell' = <<0, 0>>
    /\ UNCHANGED <<config, driver, mapped_field, sst_anom, mapped_field_arg,
                   local_vals, summary, visited, engine_calls, engine_args>>
    /\ UNCHANGED not_main

\* what compute_sdc returns to a gridpoint: any table when it is called, and
\* nothing to choose when the validity filter returns before the call
EngineReturns(dvals, lvals, cfg) ==
    IF PassesValidity(dvals, lvals, cfg) THEN EngineTables ELSE {<<>>}

\* lines 154-164: one iteration of the nested loop
Gridpoint ==
    /\ pc = "scan"
    /\ ~LoopDone(cell, mapped_field.sizes)
    /\ \E table \in EngineReturns(driver_vals, mapped_field.vals[cell], config) :
       \E res \in {_summarize_gridpoint(driver_vals, mapped_field.vals[cell],
                                        config, peak_idx, table)} :
         /\ local_vals' = mapped_field.vals[cell]
         /\ summary' = res.summary
         /\ engine_calls' = IF res.invoked THEN Append(engine_calls, cell)
                            ELSE engine_calls
         /\ engine_args' = IF res.invoked
                           THEN [driver_vals |-> driver_vals,
                                 local_vals |-> mapped_field.vals[cell]]
                           ELSE engine_args
         /\ layers' = IF res.summary = NoSummary THEN layers
                      ELSE WriteSummary(layers, cell, res.summary)
    /\ visited' = Append(visited, cell)
    /\ cell' = NextCell(cell, mapped_field.sizes)
    /\ UNCHANGED <<config, driver, mapped_field, sst_anom, mapped_field_arg,
                   pc, driver_vals, peak_idx>>
    /\ UNCHANGED not_main

\* line 166
Return ==
    /\ pc = "scan"
    /\ LoopDone(cell, mapped_field.sizes)
    /\ pc' = "done"
    /\ UNCHANGED <<config, driver, mapped_field, sst_anom, mapped_field_arg,
                   driver_vals, peak_idx, cell, layers, local_vals, summary,
                   visited, engine_calls, engine_args>>
    /\ UNCHANGED not_main

Next == Enter \/ Align \/ Gridpoint \/ Return

Spec == Init /\ [][Next]_vars

-----------------------------------------------------------------------------
(* A stand-alone call of _summarize_gridpoint                              *)

\* the aligned driver values a call may receive
DriverVals == {Reindex(d, Calendar) : d \in Drivers}

SumInit ==
    /\ MainIdle
    /\ PickIdle
    /\ AlignIdle
    /\ OrderIdle
    /\ DownloadIdle
    /\ s_pc = "input"
    /\ s_args \in [driver_vals : DriverVals, local_vals : LocalSeries,
                   config : Configs, peak_idx : {ArgMinAbs(Calendar, c.peak_date) : c \in Configs}]
    /\ s_table \in EngineTables
    /\ s_result = NoResult

SumCall ==
    /\ s_pc = "input"
    /\ s_result' = _summarize_gridpoint(s_args.driver_vals, s_args.local_vals,
                                        s_args.config, s_args.peak_idx, s_table)
    /\ s_pc' = "returned"
    /\ UNCHANGED <<s_args, s_table>>
    /\ UNCHANGED not_sum

SumNext == SumCall

SpecSummarize == SumInit /\ [][SumNext]_vars

-----------------------------------------------------------------------------
(* A stand-alone call of _pick_top_extremes on a significance-filtered     *)
(* table                                                                   *)

PickRows ==
    {Row(0, 0, Rat(9, 10), Rat(1, 100)),
     Row(3, 1, Rat(1, 2), Rat(1, 100)),
     Row(1, -1, Rat(1, 2), Rat(1, 100)),
     Row(4, 0, Rat(-1, 2), Rat(1, 100)),
     Row(2, 2, Rat(-9, 10), Rat(1, 100)),
     Row(6, 0, Zero, Rat(1, 100))}

PickTables == UNION {[1..n -> PickRows] : n \in 0..MaxPickRows}

PickInit ==
    /\ MainIdle
    /\ SumIdle
    /\ AlignIdle
    /\ OrderIdle
    /\ DownloadIdle
    /\ p_pc = "input"
    /\ p_sdc \in PickTables
    /\ p_peak_idx \in {0, 3}
    /\ p_top_fraction \in {Rat(1, 2), Rat(1, 1)}
    /\ p_result = NoPick

PickCall ==
    /\ p_pc = "input"
    /\ p_result' = _pick_top_extremes(p_sdc, p_peak_idx, p_top_fraction)
    /\ p_pc' = "returned"
    /\ UNCHANGED <<p_sdc, p_peak_idx, p_top_fraction>>
    /\ UNCHANGED not_pick

PickNext == PickCall

SpecPick == PickInit /\ [][PickNext]_vars

-----------------------------------------------------------------------------
(* A stand-alone call of align_driver_to_field                             *)

\* an alignment that returns the reindexed series without testing it
align_driver_to_field_SkipsTest(drv, index) ==
    [raised |-> FALSE,
     series |-> [index |-> index, values |-> Reindex(drv, index)]]

\* datasets.py lines 317-323
align_driver_to_field(drv, index) ==
    LET aligned == Reindex(drv, index)
    IN  IF AnyNaN(aligned)
        THEN [raised |-> TRUE, series |-> NoSeries]
        ELSE [raised |-> FALSE, series |-> [index |-> index, values |-> aligned]]

Reversed(seq) == [k \in 1..Len(seq) |-> seq[Len(seq) + 1 - k]]

\* the field's time axis: the calendar, the calendar backwards, the
\* calendar without its first timestamp
AlignIndexes == {Calendar, Reversed(Calendar), Tail(Calendar)}

\* the timestamps a driver may carry: the calendar and one beyond it
DriverStamps == CalendarSet \cup {10 * (NTime + 1)}

\* a driver holds, at each timestamp it carries, a number, a NaN or an
\* infinity
AlignDrivers ==
    UNION {[S -> {"number", "nan", "inf"}] : S \in SUBSET DriverStamps}

DriverOf(kinds) ==
    [t \in DOMAIN kinds |->
        CASE kinds[t] = "number" -> FromInt(t)
          [] kinds[t] = "nan" -> NaN
          [] OTHER -> PosInf]

AlignInit ==
    /\ MainIdle
    /\ SumIdle
    /\ PickIdle
    /\ OrderIdle
    /\ DownloadIdle
    /\ a_pc = "input"
    /\ a_driver \in {DriverOf(kinds) : kinds \in AlignDrivers}
    /\ a_index \in AlignIndexes
    /\ a_result = NoSeries

AlignCall ==
    /\ a_pc = "input"
    /\ \E res \in {align_driver_to_field(a_driver, a_index)} :
         /\ a_pc' = IF res.raised THEN "raised" ELSE "returned"
         /\ a_result' = res.series
    /\ UNCHANGED <<a_driver, a_index>>
    /\ UNCHANGED not_align

AlignNext == AlignCall

SpecAlign == AlignInit /\ [][AlignNext]_vars

-----------------------------------------------------------------------------
(* The loop body of lines 154-164 run for the gridpoints in an arbitrary   *)
(* order, the bodies of different gridpoints interleaved: a body reads its *)
(* column and calls _summarize_gridpoint (Evaluate), then stores the       *)
(* summary key by key (StoreKey).  The engine's answer to a gridpoint is   *)
(* fixed in advance, whatever the order of the calls.                      *)

\* the keys of the summary dict in the order of lines 92-101
KeyOrder == <<"corr_mean", "driver_rel_time_mean", "lag_mean", "timing_combo",
              "strong_span", "strong_start", "dominant_sign", "n_selected">>

\* a store that fills the whole array of the key
WriteKey_WholeLayer(lay, c, key, value) ==
    [lay EXCEPT ![key] = [d \in DOMAIN lay[key] |-> value]]

\* line 164: layers[key][i, j] = value
WriteKey(lay, c, key, value) == [lay EXCEPT ![key][c] = value]

\* the shapes and columns of the fields scanned out of order
OrderShapes == GridShapes \cup {<<1, 3>>}
OrderFields ==
    UNION {[time : {Calendar}, sizes : {shape}, vals : [CellsOf(shape) -> {Ramp, Const}]] :
             shape \in OrderShapes}
OrderConfigs == {c \in Configs : c.fragment_size = 1 /\ c.peak_date = 25}

\* the engine's answers: no row, positive rows, negative rows
OrderTables == {PoolRows(S) : S \in {{}, {1, 2, 3}, {4, 5}}}

NotStarted == [evaluated |-> FALSE, summary |-> NoSummary, written |-> 0]

OrderInit ==
    /\ SumIdle
    /\ PickIdle
    /\ AlignIdle
    /\ DownloadIdle
    /\ config \in OrderConfigs
    /\ driver = DriverFull
    /\ mapped_field \in OrderFields
    /\ sst_anom = None
    /\ mapped_field_arg = mapped_field
    /\ pc = "entry"
    /\ driver_vals = <<>>
    /\ peak_idx = 0
    /\ cell = <<0, 0>>
    /\ layers = Unallocated
    /\ local_vals = <<>>
    /\ summary = NoSummary
    /\ visited = <<>>
    /\ engine_calls = <<>>
    /\ engine_args = NoArgs
    /\ o_engine \in [CellsOf(mapped_field.sizes) -> OrderTables]
    /\ o_pending = [c \in CellsOf(mapped_field.sizes) |-> NotStarted]

\* what compute_sdc returns to gridpoint c
EngineAnswer(c) ==
    IF PassesValidity(driver_vals, mapped_field.vals[c], config)
    THEN o_engine[c] ELSE <<>>

\* lines 154-160 for gridpoint c
Evaluate(c) ==
    /\ pc = "scan"
    /\ ~o_pending[c].evaluated
    /\ \E res \in {_summarize_gridpoint(driver_vals, mapped_field.vals[c],
                                        config, peak_idx, EngineAnswer(c))} :
         /\ local_vals' = mapped_field.vals[c]
         /\ summary' = res.summary
         /\ engine_calls' = IF res.invoked THEN Append(engine_calls, c)
                            ELSE engine_calls
         /\ engine_args' = IF res.invoked
                           THEN [driver_vals |-> driver_vals,
                                 local_vals |-> mapped_field.vals[c]]
                           ELSE engine_args
         /\ o_pending' = [o_pending EXCEPT ![c] =
                             [evaluated |-> TRUE, summary |-> res.summary, written |-> 0]]
    /\ visited' = Append(visited, c)
    /\ UNCHANGED <<config, driver, mapped_field, sst_anom, mapped_field_arg,
                   pc, driver_vals, peak_idx, cell, layers, o_engine>>
    /\ UNCHANGED not_scan

\* lines 161-164 for gridpoint c: one pass of the loop over the summary
StoreKey(c) ==
    /\ pc = "scan"
    /\ o_pending[c].evaluated
    /\ o_pending[c].summary # NoSummary
    /\ o_pending[c].written < Len(KeyOrder)
    /\ \E key \in {KeyOrder[o_pending[c].written + 1]} :
         layers' = WriteKey(layers, c, key, o_pending[c].summary[key])
    /\ o_pending' = [o_pending EXCEPT ![c].written = @ + 1]
    /\ UNCHANGED <<config, driver, mapped_field, sst_anom, mapped_field_arg,
                   pc, driver_vals, peak_idx, cell, local_vals, summary,
                   visited, engine_calls, engine_args, o_engine>>
    /\ UNCHANGED not_scan

BodyFinished(c) ==
    /\ o_pending[c].evaluated
    /\ o_pending[c].summary = NoSummary \/ o_pending[c].written = Len(KeyOrder)

\* line 166, every loop body finished
OrderReturn ==
    /\ pc = "scan"
    /\ \A c \in DOMAIN o_pending : BodyFinished(c)
    /\ pc' = "done"
    /\ UNCHANGED <<config, driver, mapped_field, sst_anom, mapped_field_arg,
                   driver_vals, peak_idx, cell, layers, local_vals, summary,
                   visited, engine_calls, engine_args>>
    /\ UNCHANGED order_vars
    /\ UNCHANGED not_scan

OrderNext ==
    \/ Enter
    \/ Align
    \/ \E c \in DOMAIN o_pending : Evaluate(c)
    \/ \E c \in DOMAIN o_pending : StoreKey(c)
    \/ OrderReturn

SpecAnyOrder == OrderInit /\ [][OrderNext]_vars

\* the layers the nested loop of lines 152-164 leaves, from cell c on, given
\* the same answers of the engine
RECURSIVE SequentialScan(_, _)
SequentialScan(lay, c) ==
    IF LoopDone(c, mapped_field.sizes) THEN lay
    ELSE LET res == _summarize_gridpoint(driver_vals, mapped_field.vals[c],
                                         config, peak_idx, EngineAnswer(c))
         IN  SequentialScan(IF res.summary = NoSummary THEN lay
                            ELSE WriteSummary(lay, c, res.summary),
                            NextCell(c, mapped_field.sizes))

-----------------------------------------------------------------------------
(* download_if_missing (datasets.py lines 90-173).  The destination file   *)
(* is [exists, size, data]; the HEAD request, each curl run and each       *)
(* urlretrieve call are steps whose outcome the network decides.           *)

\* range(4) of line 146, attempt == 3 of line 154, attempts = 3 of line 161
CurlAttempts == 4
CurlLastAttempt == 3
UrllibAttempts == 3

_is_non_empty(file) == file.exists /\ file.size > 0

\* a cleanup that leaves the file in place
_cleanup_zero_byte_Keeps(file) == file

\* lines 104-106
_cleanup_zero_byte(file) ==
    IF file.exists /\ file.size = 0 THEN NoFile ELSE file

\* a cache test that asks the remote whatever verify_remote says
CacheDecision_AlwaysVerifies(file, args) ==
    IF _is_non_empty(file) /\ ~args.refresh
    THEN IF args.offline THEN "return" ELSE "head"
    ELSE IF args.offline THEN "offline_error" ELSE "download"

\* a cache test that does not look at offline
CacheDecision_IgnoresOffline(file, args) ==
    IF _is_non_empty(file) /\ ~args.refresh
    THEN IF ~args.verify_remote THEN "return" ELSE "head"
    ELSE "download"

\* a cache test that does not look at refresh
CacheDecision_IgnoresRefresh(file, args) ==
    IF _is_non_empty(file)
    THEN IF args.offline \/ ~args.verify_remote THEN "return" ELSE "head"
    ELSE IF args.offline THEN "offline_error" ELSE "download"

\* lines 108-112 and 126-129: what the call does before any network operation
CacheDecision(file, args) ==
    IF _is_non_empty(file) /\ ~args.refresh
    THEN IF args.offline \/ ~args.verify_remote THEN "return" ELSE "head"
    ELSE IF args.offline THEN "offline_error" ELSE "download"

\* what the HEAD request may give: an exception, a response without
\* Content-Length, a response with one
HeadResponses ==
    {[status |-> "error", length |-> 0], [status |-> "no_length", length |-> 0]}
    \cup {[status |-> "ok", length |-> n] : n \in 0..(MaxFileSize + 1)}

\* lines 114-120
RemoteSize(response) ==
    IF response.status = "ok"
    THEN [known |-> TRUE, size |-> response.length]
    ELSE UnknownSize

\* a size test that takes a cache of the remote's size for stale
CacheIsCurrent_Strict(file, remote_size) ==
    ~remote_size.known \/ file.size > remote_size.size

\* line 123
CacheIsCurrent(file, remote_size) ==
    ~remote_size.known \/ file.size >= remote_size.size

\* the destination after a curl run or a urlretrieve call: as it was, or
\* holding what was transferred
FilesAfter(file) ==
    {file} \cup {[exists |-> TRUE, size |-> n, data |-> "fetched"] : n \in 0..MaxFileSize}

\* the destination before the call: absent, or a cached file
CachedFiles ==
    {NoFile} \cup {[exists |-> TRUE, size |-> n, data |-> "cached"] : n \in 0..MaxFileSize}

LogEntry(op, outcome, file) ==
    [op |-> op, outcome |-> outcome, non_empty |-> _is_non_empty(file)]

DownloadInit ==
    /\ MainIdle
    /\ SumIdle
    /\ PickIdle
    /\ AlignIdle
    /\ OrderIdle
    /\ d_pc = "start"
    /\ d_args \in [refresh : BOOLEAN, verify_remote : BOOLEAN, offline : BOOLEAN]
    /\ d_file \in CachedFiles
    /\ d_file0 = d_file
    /\ d_curl_installed \in BOOLEAN
    /\ d_attempt = 0
    /\ d_remote_size = UnknownSize
    /\ d_log = <<>>
    /\ d_error = "none"

\* lines 99-112 and, with no usable cache, 126-129
CheckCache ==
    /\ d_pc = "start"
    /\ \E decision \in {CacheDecision(d_file, d_args)} :
         /\ d_pc' = CASE decision = "return" -> "returned"
                      [] decision = "head" -> "head"
                      [] decision = "offline_error" -> "raised"
                      [] OTHER -> "curl"
         /\ d_error' = IF decision = "offline_error" THEN "RuntimeError: Offline mode"
                       ELSE d_error
    /\ UNCHANGED <<d_args, d_file, d_file0, d_curl_installed, d_attempt,
                   d_remote_size, d_log>>
    /\ UNCHANGED not_download

\* lines 114-129: the HEAD request and the size test
HeadRequest ==
    /\ d_pc = "head"
    /\ \E response \in HeadResponses :
         /\ d_log' = Append(d_log, LogEntry("head", response.status, d_file))
         /\ d_remote_size' = RemoteSize(response)
         /\ IF CacheIsCurrent(d_file, RemoteSize(response))
            THEN d_pc' = "returned" /\ d_error' = d_error
            ELSE IF d_args.offline
                 THEN d_pc' = "raised" /\ d_error' = "RuntimeError: Offline mode"
                 ELSE d_pc' = "curl" /\ d_error' = d_error
    /\ UNCHANGED <<d_args, d_file, d_file0, d_curl_installed, d_attempt>>
    /\ UNCHANGED not_download

\* lines 146-158: one pass of the curl loop
Curl ==
    /\ d_pc = "curl"
    /\ IF ~d_curl_installed
       THEN \* FileNotFoundError, caught at line 156
            /\ d_log' = Append(d_log, LogEntry("curl", "not_found", d_file))
            /\ d_pc' = "urllib"
            /\ d_attempt' = 0
            /\ UNCHANGED <<d_file, d_error>>
       ELSE \E exit \in {"ok", "error"} : \E file \in FilesAfter(d_file) :
            /\ d_log' = Append(d_log, LogEntry("curl", exit, file))
            /\ IF exit = "ok" /\ _is_non_empty(file)
               THEN /\ d_pc' = "returned"
                    /\ d_file' = file
                    /\ UNCHANGED <<d_attempt, d_error>>
               ELSE /\ d_file' = _cleanup_zero_byte(file)
                    /\ IF d_attempt = CurlLastAttempt
                       THEN /\ d_pc' = "raised"
                            /\ d_error' = IF exit = "error" THEN "CalledProcessError"
                                          ELSE "RuntimeError: Downloaded file is empty"
                            /\ UNCHANGED d_attempt
                       ELSE /\ d_attempt' = IF d_attempt + 1 < CurlAttempts
                                            THEN d_attempt + 1 ELSE 0
                            /\ d_pc' = IF d_attempt + 1 < CurlAttempts
                                       THEN "curl" ELSE "urllib"
                            /\ UNCHANGED d_error
    /\ UNCHANGED <<d_args, d_file0, d_curl_installed, d_remote_size>>
    /\ UNCHANGED not_download

\* lines 162-171: one pass of the urllib loop
Urlretrieve ==
    /\ d_pc = "urllib"
    /\ \E result \in {"ok", "error"} : \E file \in FilesAfter(d_file) :
         /\ d_log' = Append(d_log, LogEntry("urlretrieve", result, file))
         /\ IF result = "ok" /\ _is_non_empty(file)
            THEN /\ d_pc' = "returned"
                 /\ d_file' = file
                 /\ UNCHANGED <<d_attempt, d_error>>
            ELSE /\ d_file' = _cleanup_zero_byte(file)
                 /\ IF d_attempt = UrllibAttempts - 1
                    THEN /\ d_pc' = "raised"
                         /\ d_error' = IF result = "error" THEN "urlretrieve error"
                                       ELSE "RuntimeError: Downloaded file is empty"
                         /\ UNCHANGED d_attempt
                    ELSE /\ d_attempt' = d_attempt + 1
                         /\ UNCHANGED <<d_pc, d_error>>
    /\ UNCHANGED <<d_args, d_file0, d_curl_installed, d_remote_size>>
    /\ UNCHANGED not_download

DownloadNext == CheckCache \/ HeadRequest \/ Curl \/ Urlretrieve

SpecDownload == DownloadInit /\ [][DownloadNext]_vars

\* the call is one sequential thread: whenever a step of it is possible (the
\* HEAD request, the curl run or the urlretrieve call it waits for comes
\* back), the step is taken
SpecDownloadLive == SpecDownload /\ WF_vars(DownloadNext)

-----------------------------------------------------------------------------
(* Properties of the scan (Spec)                                           *)

AllNaNAt(c) == \A key \in LayerKeys : layers[key][c] = NaN
NoNaNAt(c) == \A key \in LayerKeys : layers[key][c] # NaN
Allocated == pc \in {"scan", "done"}
GridCells == CellsOf(mapped_field.sizes)

\* a column with too few finite samples, zero variance, or a missing value
DegenerateColumn(vals) ==
    \/ Cardinality({k \in 1..Len(vals) : vals[k][2] > 0}) < config.fragment_size + 3
    \/ \A k, m \in 1..Len(vals) : vals[k][2] > 0 /\ vals[k] = vals[m]
    \/ \E k \in 1..Len(vals) : vals[k] = NaN

\* C1: a gridpoint whose column has fewer than fragment_size+3 finite
\* samples, zero variance or a missing value is NaN in all eight layers,
\* during and after the scan
C1_DegenerateCellsStayNaN ==
    Allocated =>
        \A c \in GridCells : DegenerateColumn(mapped_field.vals[c]) => AllNaNAt(c)

\* the scan is over, one cell held a column with a NaN among enough finite,
\* varying samples and stayed NaN, and another cell received a summary
C1_Witness ==
    /\ pc = "done"
    /\ \E c, d \in GridCells :
         /\ \E k \in 1..NTime : mapped_field.vals[c][k] = NaN
         /\ CountFinite(mapped_field.vals[c]) >= config.fragment_size + 3
         /\ ~NanStdIsZero(mapped_field.vals[c])
         /\ AllNaNAt(c)
         /\ NoNaNAt(d)

\* C7: every cell is NaN in all eight layers or in none of them
C7_AllOrNothing ==
    Allocated => \A c \in GridCells : AllNaNAt(c) \/ NoNaNAt(c)

\* the scan is over with one cell written and one cell left NaN
C7_Witness ==
    /\ pc = "done"
    /\ \E c, d \in GridCells : NoNaNAt(c) /\ AllNaNAt(d)

\* the call went past the argument checks of lines 122-127
ArgsAccepted == pc \in {"call", "scan", "done", "error"}

\* the driver has no value (no entry, or NaN) at a timestamp of the field
DriverLacksValue ==
    \E k \in 1..Len(mapped_field.time) :
        \/ mapped_field.time[k] \notin DOMAIN driver
        \/ driver[mapped_field.time[k]] = NaN

\* C10: when the driver lacks a value for a timestamp of the field the call,
\* its arguments accepted, ends in the alignment error with no gridpoint evaluated, no engine call
\* and no layers; otherwise no error is raised and the finished scan has
\* evaluated every gridpoint exactly once
C10_AlignOrNothing ==
    /\ (ArgsAccepted /\ DriverLacksValue /\ pc # "call") =>
          /\ pc = "error"
          /\ visited = <<>>
          /\ engine_calls = <<>>
          /\ layers = Unallocated
    /\ (ArgsAccepted /\ ~DriverLacksValue) => pc # "error"
    /\ pc = "error" => visited = <<>> /\ engine_calls = <<>>
    /\ pc = "done" =>
          /\ {visited[k] : k \in 1..Len(visited)} = GridCells
          /\ Len(visited) = Cardinality(GridCells)

\* the call has raised for a driver one timestamp short of the field
C10_Witness ==
    /\ pc = "error"
    /\ \E k \in 1..Len(mapped_field.time) : mapped_field.time[k] \notin DOMAIN driver

NothingDone ==
    /\ driver_vals = <<>>
    /\ peak_idx = 0
    /\ visited = <<>>
    /\ engine_calls = <<>>
    /\ layers = Unallocated

\* C12: a call without config, or with neither mapped_field nor sst_anom,
\* ends in the argument error with no alignment, no allocation and no
\* gridpoint evaluated; a call with a config and only sst_anom goes on with
\* sst_anom as its mapped field
C12_ArgumentChecks ==
    /\ (pc # "entry" /\ (config = None \/ (mapped_field_arg = None /\ sst_anom = None))) =>
          pc = "arg_error" /\ NothingDone
    /\ pc = "arg_error" => NothingDone
    /\ (pc # "entry" /\ config # None /\ mapped_field_arg = None /\ sst_anom # None) =>
          pc # "arg_error" /\ mapped_field = sst_anom

\* the call was given its field through the alias and no config, and has
\* raised the argument error
C12_Witness ==
    /\ pc = "arg_error"
    /\ config = None
    /\ mapped_field_arg = None
    /\ mapped_field = sst_anom
    /\ sst_anom # None

\* C14: with a fragment_size larger than the number of timestamps, the
\* engine is never called and every cell of every layer is NaN, during and
\* after the scan
C14_OversizedFragmentAllNaN ==
    (Allocated /\ config.fragment_size > Len(mapped_field.time)) =>
        /\ engine_calls = <<>>
        /\ engine_args = NoArgs
        /\ \A c \in GridCells : AllNaNAt(c)

\* the scan is over for a fragment_size larger than the series, with the
\* driver covering the calendar and a cell holding a column of finite,
\* varying samples; no engine call was made
C14_Witness ==
    /\ pc = "done"
    /\ config.fragment_size > Len(mapped_field.time)
    /\ driver = DriverFull
    /\ \E c \in GridCells : mapped_field.vals[c] = Ramp
    /\ Len(visited) = Cardinality(GridCells)
    /\ engine_calls = <<>>

AllFinite(vals) == \A k \in 1..Len(vals) : vals[k][2] > 0
Varies(vals) == \E k, m \in 1..Len(vals) : vals[k] # vals[m]

\* C20: the arguments of the last call of the engine hold finite values
\* only, and the local series has at least fragment_size+3 samples and
\* does not have zero variance
C20_EngineInputsFinite ==
    engine_calls # <<>> =>
        /\ AllFinite(engine_args.driver_vals)
        /\ AllFinite(engine_args.local_vals)
        /\ Len(engine_args.local_vals) >= config.fragment_size + 3
        /\ Varies(engine_args.local_vals)

\* distance of the calendar's 0-based position n to the configured peak
PeakDistance(n) ==
    IF mapped_field.time[n + 1] >= config.peak_date
    THEN mapped_field.time[n + 1] - config.peak_date
    ELSE config.peak_date - mapped_field.time[n + 1]
Positions == 0..(Len(mapped_field.time) - 1)

\* C13: from the allocation on and through the whole scan, peak_idx is a
\* position of the calendar, no position is nearer to the configured peak,
\* and every earlier position is strictly farther
C13_PeakIsEarliestNearest ==
    Allocated =>
        /\ peak_idx \in Positions
        /\ \A n \in Positions : PeakDistance(peak_idx) <= PeakDistance(n)
        /\ \A n \in Positions : n < peak_idx => PeakDistance(n) > PeakDistance(peak_idx)

\* the scan is over, every gridpoint evaluated, and the peak lay midway
\* between the resolved position and the next one
C13_Witness ==
    /\ pc = "done"
    /\ Len(visited) = Cardinality(GridCells)
    /\ peak_idx + 1 \in Positions
    /\ PeakDistance(peak_idx + 1) = PeakDistance(peak_idx)
    /\ PeakDistance(peak_idx) > 0

-----------------------------------------------------------------------------
(* Properties of _summarize_gridpoint (SpecSummarize)                      *)

Returned == s_pc = "returned"
HasSummary == s_pc = "returned" /\ s_result.summary # NoSummary
Selected == s_result.picked.selected
TableRows == 1..Len(s_table)
SelectedRows == 1..Len(Selected)

\* r and p_value finite and p_value <= alpha
PassesAlpha(row) ==
    /\ row.r[2] > 0
    /\ row.p_value[2] > 0
    /\ row.p_value[1] * s_args.config.alpha[2] <= s_args.config.alpha[1] * row.p_value[2]

RECURSIVE IntSum(_)
IntSum(xs) == IF xs = <<>> THEN 0 ELSE Head(xs) + IntSum(Tail(xs))

\* the selected rows' peak-relative offsets and lags
Offsets == [k \in SelectedRows |-> Selected[k].start_1 - s_args.peak_idx]
Lags == [k \in SelectedRows |-> Selected[k].lag]
OffsetSet == {Offsets[k] : k \in SelectedRows}

\* C2: every row behind a summary is a row of the engine's table with r and
\* p_value finite and p_value <= alpha, the rows failing that test change
\* nothing in the result, and when no row passes it the result is None
C2_OnlySignificantRowsContribute ==
    (Returned /\ s_result.invoked) =>
        /\ \A k \in SelectedRows :
              /\ PassesAlpha(Selected[k])
              /\ \E m \in TableRows :
                    s_table[m] = Row(Selected[k].start_1, Selected[k].lag,
                                     Selected[k].r, Selected[k].p_value)
        /\ s_result.summary =
              _summarize_gridpoint(s_args.driver_vals, s_args.local_vals, s_args.config,
                                   s_args.peak_idx, SelectSeq(s_table, PassesAlpha)).summary
        /\ (\A m \in TableRows : ~PassesAlpha(s_table[m])) => s_result.summary = NoSummary

\* a summary was produced although the table held a row with p_value above
\* alpha whose r exceeds every selected r, and a selected row has p_value
\* equal to alpha
C2_Witness ==
    /\ HasSummary
    /\ \E m \in TableRows :
         /\ s_table[m].r[2] > 0 /\ s_table[m].p_value[2] > 0
         /\ ~PassesAlpha(s_table[m])
         /\ \A k \in SelectedRows : Lt(Selected[k].r, s_table[m].r)
    /\ \E k \in SelectedRows : Selected[k].p_value = s_args.config.alpha

\* the rows of the table that pass the filter and have the dominant sign
WinningGroup ==
    {m \in TableRows :
        /\ PassesAlpha(s_table[m])
        /\ IF s_result.summary.dominant_sign = FromInt(1)
           THEN s_table[m].r[1] > 0 ELSE s_table[m].r[1] < 0}
WinningCount ==
    (Cardinality(WinningGroup) * s_args.config.top_fraction[1])
        \div s_args.config.top_fraction[2]

\* C6: a summary has n_selected >= 2, equal to the number of selected rows and
\* to floor(size of the winning sign group x top_fraction)
C6_SelectedCount ==
    HasSummary =>
        /\ s_result.summary.n_selected = FromInt(Len(Selected))
        /\ s_result.summary.n_selected = FromInt(WinningCount)
        /\ Len(Selected) >= 2

\* a summary whose winning group is larger than the selection, the product
\* with top_fraction not being an integer
C6_Witness ==
    /\ HasSummary
    /\ 2 <= Len(Selected)
    /\ Len(Selected) < Cardinality(WinningGroup)
    /\ (Cardinality(WinningGroup) * s_args.config.top_fraction[1])
           % s_args.config.top_fraction[2] # 0

\* C8: timing_combo is driver_rel_time_mean + lag_mean, both being means over
\* the selected rows
C8_TimingCombo ==
    HasSummary =>
        /\ s_result.summary.timing_combo =
              Add(s_result.summary.driver_rel_time_mean, s_result.summary.lag_mean)
        /\ s_result.summary.driver_rel_time_mean = Rat(IntSum(Offsets), Len(Selected))
        /\ s_result.summary.lag_mean = Rat(IntSum(Lags), Len(Selected))

\* a summary with non-zero lag_mean, a fractional driver_rel_time_mean and
\* more significant rows in the table than were selected
C8_Witness ==
    /\ HasSummary
    /\ s_result.summary.lag_mean[1] # 0
    /\ s_result.summary.driver_rel_time_mean[2] > 1
    /\ Len(Selected) < Len(s_result.sdc)

\* C9: strong_start is the minimum of the selected offsets, strong_span the
\* maximum minus the minimum, hence >= 0, and driver_rel_time_mean lies
\* between strong_start and strong_start + strong_span
C9_SpanAndStart ==
    HasSummary =>
        /\ \E lo, hi \in OffsetSet :
              /\ \A x \in OffsetSet : lo <= x /\ x <= hi
              /\ s_result.summary.strong_start = FromInt(lo)
              /\ s_result.summary.strong_span = FromInt(hi - lo)
        /\ Le(Zero, s_result.summary.strong_span)
        /\ Le(s_result.summary.strong_start, s_result.summary.driver_rel_time_mean)
        /\ Le(s_result.summary.driver_rel_time_mean,
              Add(s_result.summary.strong_start, s_result.summary.strong_span))

\* a summary with a positive span starting before the peak
C9_Witness ==
    /\ HasSummary
    /\ Lt(Zero, s_result.summary.strong_span)
    /\ Lt(s_result.summary.strong_start, Zero)

-----------------------------------------------------------------------------
(* Properties of _pick_top_extremes (SpecPick)                             *)

PickReturned == p_pc = "returned"
PickSel == p_result.selected
PickSelRows == 1..Len(PickSel)
PickTableRows == 1..Len(p_sdc)
PosGroup == {m \in PickTableRows : p_sdc[m].r[1] > 0}
NegGroup == {m \in PickTableRows : p_sdc[m].r[1] < 0}
CountOf(group) == (Cardinality(group) * p_top_fraction[1]) \div p_top_fraction[2]
PosQualifies == CountOf(PosGroup) >= 2
NegQualifies == CountOf(NegGroup) >= 2

\* C3: the returned group is one whose floor(size x top_fraction) is >= 2,
\* the size counting the rows of that sign only, and the result is None
\* exactly when neither sign reaches 2
C3_QualifyingGroups ==
    PickReturned =>
        /\ p_result.sign \in {"pos", "neg", "none"}
        /\ p_result.sign = "pos" => PosQualifies
        /\ p_result.sign = "neg" => NegQualifies
        /\ p_result.sign = "none" <=> (~PosQualifies /\ ~NegQualifies)
        /\ p_result.sign = "none" <=> p_result = NoPick

\* the result is None although the table holds three positive rows and a row
\* with r == 0: half of three is not rounded up and the zero row is not counted
C3_Witness ==
    /\ PickReturned
    /\ p_result = NoPick
    /\ Cardinality(PosGroup) = 3
    /\ p_top_fraction = Rat(1, 2)
    /\ \E m \in PickTableRows : p_sdc[m].r = Zero

\* the table row a selected row was taken from
Source(row) == Row(row.start_1, row.lag, row.r, row.p_value)
CopiesSelected(row) == Cardinality({k \in PickSelRows : Source(PickSel[k]) = row})
CopiesInTable(row) == Cardinality({m \in PickTableRows : p_sdc[m] = row})

\* C4: the selection of the returned group is floor(size x top_fraction) rows
\* of that sign taken from the table, no unselected row of the group lies
\* beyond a selected one (above it for POS, below it for NEG), and every
\* selected row carries the offset start_1 - peak_idx
C4_TopRowsAndOffsets ==
    (PickReturned /\ p_result # NoPick) =>
        LET group == IF p_result.sign = "pos" THEN PosGroup ELSE NegGroup
            Beyond(a, b) == IF p_result.sign = "pos" THEN Lt(b, a) ELSE Lt(a, b)
        IN  /\ Len(PickSel) = CountOf(group)
            /\ \A k \in PickSelRows :
                  /\ \E m \in group : p_sdc[m] = Source(PickSel[k])
                  /\ CopiesSelected(Source(PickSel[k])) <= CopiesInTable(Source(PickSel[k]))
                  /\ PickSel[k].driver_rel_start = PickSel[k].start_1 - p_peak_idx
            /\ \A m \in group :
                  (\E k \in PickSelRows : Beyond(p_sdc[m].r, PickSel[k].r)) =>
                      CopiesSelected(p_sdc[m]) = CopiesInTable(p_sdc[m])

\* a negative group was returned with fewer rows than the group holds, an
\* unselected row of it lying above a selected one, and an offset is negative
C4_Witness ==
    /\ PickReturned
    /\ p_result.sign = "neg"
    /\ Len(PickSel) < Cardinality(NegGroup)
    /\ \E m \in NegGroup : \E k \in PickSelRows :
         /\ Lt(PickSel[k].r, p_sdc[m].r)
         /\ CopiesSelected(p_sdc[m]) = 0
    /\ \E k \in PickSelRows : PickSel[k].driver_rel_start < 0

\* the mean of |r| over the rows a group would select
MeanAbsR(rows) ==
    DivInt(Sum([k \in 1..Len(rows) |-> <<Abs(rows[k].r[1]), rows[k].r[2]>>]), Len(rows))
TopPos == nlargest(CountOf(PosGroup), SelectSeq(p_sdc, LAMBDA row : row.r[1] > 0))
TopNeg == nsmallest(CountOf(NegGroup), SelectSeq(p_sdc, LAMBDA row : row.r[1] < 0))

\* C5: when both groups qualify the one with the strictly larger mean |r| is
\* returned, when one qualifies it is returned, each with its own sign label
\* and its own rows
C5_DominantGroup ==
    PickReturned =>
        /\ (PosQualifies /\ NegQualifies /\ Lt(MeanAbsR(TopNeg), MeanAbsR(TopPos)))
              => p_result.sign = "pos"
        /\ (PosQualifies /\ NegQualifies /\ Lt(MeanAbsR(TopPos), MeanAbsR(TopNeg)))
              => p_result.sign = "neg"
        /\ (PosQualifies /\ ~NegQualifies) => p_result.sign = "pos"
        /\ (NegQualifies /\ ~PosQualifies) => p_result.sign = "neg"
        /\ p_result.sign = "pos" => Column(PickSel, "r") = Column(TopPos, "r")
        /\ p_result.sign = "neg" => Column(PickSel, "r") = Column(TopNeg, "r")

\* both groups qualify and the returned negative group has fewer rows than
\* the positive one
C5_Witness ==
    /\ PickReturned
    /\ PosQualifies /\ NegQualifies
    /\ p_result.sign = "neg"
    /\ Len(PickSel) < CountOf(PosGroup)

BothQualifyTied ==
    /\ PosQualifies /\ NegQualifies
    /\ MeanAbsR(TopPos) = MeanAbsR(TopNeg)

\* C21: when both groups qualify and their mean |r| are equal, the positive
\* group is returned, labelled pos, with the top rows of the positive group
C21_TieGoesToPositive ==
    (PickReturned /\ BothQualifyTied) =>
        /\ p_result.sign = "pos"
        /\ Column(PickSel, "r") = Column(TopPos, "r")

\* both groups qualified with equal mean |r|, the negative rows standing
\* first in the table, and the call has returned the positive group
C21_Witness ==
    /\ PickReturned
    /\ BothQualifyTied
    /\ p_sdc[1].r[1] < 0
    /\ p_result.sign = "pos"

-----------------------------------------------------------------------------
(* Properties of align_driver_to_field (SpecAlign)                         *)

AlignEnded == a_pc \in {"returned", "raised"}
StampMissing == \E k \in 1..Len(a_index) : a_index[k] \notin DOMAIN a_driver
NaNAtStamp ==
    \E k \in 1..Len(a_index) :
        a_index[k] \in DOMAIN a_driver /\ a_driver[a_index[k]] = NaN
ReturnsAligned ==
    /\ a_pc = "returned"
    /\ a_result.index = a_index
    /\ Len(a_result.values) = Len(a_index)
    /\ \A k \in 1..Len(a_index) : a_result.values[k] = a_driver[a_index[k]]
RaisesValueError == a_pc = "raised" /\ a_result = NoSeries

\* C11 (as stated): the call raises when a timestamp of the field is missing
\* from the driver, and otherwise returns the driver's values on exactly the
\* field's timestamps, in the field's order
C11_RaisesOnlyOnMissingStamp ==
    AlignEnded => IF StampMissing THEN RaisesValueError ELSE ReturnsAligned

\* C11 (amended): the call raises when a timestamp of the field is missing
\* from the driver or the driver holds NaN at one, and otherwise returns the
\* driver's values on exactly the field's timestamps, in the field's order
C11_RaisesOnMissingOrNaN ==
    AlignEnded =>
        IF StampMissing \/ NaNAtStamp THEN RaisesValueError ELSE ReturnsAligned

\* a driver carrying every timestamp of the field, NaN at one of them: the
\* call has raised
C11_Witness ==
    /\ a_pc = "raised"
    /\ ~StampMissing
    /\ NaNAtStamp

-----------------------------------------------------------------------------
(* Properties of the scan in an arbitrary order (SpecAnyOrder)             *)

\* a step that changes cell c of a layer is a store of gridpoint c's own
\* loop body, into an entry still NaN
SingleWriterStep ==
    pc = "scan" =>
        \A c \in GridCells : \A key \in LayerKeys :
            layers'[key][c] # layers[key][c] =>
                /\ o_pending[c].evaluated
                /\ o_pending'[c].written = o_pending[c].written + 1
                /\ key = KeyOrder[o_pending'[c].written]
                /\ layers[key][c] = NaN
                /\ \A d \in GridCells \ {c} : o_pending'[d] = o_pending[d]

\* C15: every change of a layer's cell is made by the evaluation of that
\* cell's own gridpoint, once per key; and whatever the order and the
\* interleaving of the evaluations, the finished layers are those of the
\* sequential scan
C15_SingleWriterAnyOrder ==
    /\ [][SingleWriterStep]_vars
    /\ [](pc = "done" => layers = SequentialScan(EmptyLayers(mapped_field.sizes), <<0, 0>>))

\* the scan is over, the gridpoints were not evaluated in row-major order,
\* and two cells hold summaries of opposite sign
C15_Witness ==
    /\ pc = "done"
    /\ o_pending # <<>>
    /\ visited[1] # <<0, 0>>
    /\ \E c, d \in GridCells :
         /\ NoNaNAt(c) /\ NoNaNAt(d)
         /\ layers["dominant_sign"][c] # layers["dominant_sign"][d]

-----------------------------------------------------------------------------
(* Properties of download_if_missing (SpecDownload)                        *)

CallEnded == d_pc \in {"returned", "raised"}
\* the destination was a non-empty file when the call was made
CacheReady == d_file0.exists /\ d_file0.size > 0
OpsOf(op) == Cardinality({k \in 1..Len(d_log) : d_log[k].op = op})
\* the transfers that ran: curl runs and urlretrieve calls
IsTransfer(entry) ==
    entry.op \in {"curl", "urlretrieve"} /\ entry.outcome # "not_found"
Transfers == SelectSeq(d_log, IsTransfer)

\* C16: a call with a non-empty destination, refresh and verify_remote both
\* off, has returned right after its cache test, with no HEAD request, no
\* curl run and no urlretrieve call, the file as it was
C16_CacheHitNoNetwork ==
    (d_pc # "start" /\ CacheReady /\ ~d_args.refresh /\ ~d_args.verify_remote) =>
        /\ d_pc = "returned"
        /\ d_log = <<>>
        /\ d_file = d_file0

\* the call has returned a cached file of the largest size, online
C16_Witness ==
    /\ d_pc = "returned"
    /\ d_file0.exists /\ d_file0.size = MaxFileSize
    /\ ~d_args.refresh /\ ~d_args.verify_remote /\ ~d_args.offline
    /\ d_log = <<>>
    /\ d_file = d_file0

\* C17: an offline call never makes a network operation and never touches
\* the destination; it returns when the destination is non-empty and
\* refresh is off, and otherwise raises the offline RuntimeError
C17_OfflineNeverTouchesNetwork ==
    d_args.offline =>
        /\ d_log = <<>>
        /\ d_file = d_file0
        /\ d_pc \in {"idle", "start", "returned", "raised"}
        /\ d_pc = "returned" => CacheReady /\ ~d_args.refresh
        /\ d_pc = "raised" =>
              /\ ~(CacheReady /\ ~d_args.refresh)
              /\ d_error = "RuntimeError: Offline mode"

\* an offline call asked to refresh and to verify a non-empty cache has
\* raised
C17_Witness ==
    /\ d_pc = "raised"
    /\ d_args.offline /\ d_args.refresh /\ d_args.verify_remote
    /\ CacheReady
    /\ d_file = d_file0

VerifyCase ==
    CacheReady /\ ~d_args.refresh /\ ~d_args.offline /\ d_args.verify_remote
PastHead == d_pc \in {"curl", "urllib", "returned", "raised"}
Redownloads == d_pc \in {"curl", "urllib"} \/ Transfers # <<>> \/ OpsOf("curl") > 0
SizeKnownAndLarger ==
    /\ d_log[1].outcome = "ok"
    /\ d_remote_size.known
    /\ d_file0.size < d_remote_size.size

\* C18: a verifying call on a non-empty cache makes one HEAD request, as
\* its first network operation; it goes on to download exactly when the
\* response carried a Content-Length larger than the local size, and
\* otherwise (also when the request failed or carried no length) returns
\* with that single operation made and the file as it was
C18_HeadThenDownloadIfStale ==
    VerifyCase =>
        /\ OpsOf("head") <= 1
        /\ d_pc \in {"start", "head"} => d_log = <<>>
        /\ PastHead =>
              /\ OpsOf("head") = 1
              /\ d_log[1].op = "head"
              /\ Redownloads <=> SizeKnownAndLarger
              /\ ~Redownloads =>
                    d_pc = "returned" /\ Len(d_log) = 1 /\ d_file = d_file0

\* the HEAD response carried a length larger than the cache, and the call
\* has returned after a transfer that replaced the file
C18_Witness ==
    /\ d_pc = "returned"
    /\ VerifyCase
    /\ SizeKnownAndLarger
    /\ Len(Transfers) >= 1
    /\ d_file.data = "fetched"

\* C19: an online call asked to refresh, or finding no non-empty
\* destination, makes no HEAD request and does not end without a transfer;
\* when its first transfer succeeds with a non-empty file it has returned
\* with that one transfer made
C19_RefreshAlwaysDownloads ==
    (~d_args.offline /\ (d_args.refresh \/ ~CacheReady)) =>
        /\ OpsOf("head") = 0
        /\ d_pc \notin {"idle", "start"} => d_pc = "curl" \/ OpsOf("curl") >= 1
        /\ CallEnded => Len(Transfers) >= 1
        /\ (Transfers # <<>> /\ Transfers[1].outcome = "ok" /\ Transfers[1].non_empty) =>
              /\ Len(Transfers) = 1
              /\ d_pc = "returned"
              /\ d_file.exists /\ d_file.size > 0

\* a refreshing, verifying call on a non-empty cache has returned after a
\* single curl run
C19_Witness ==
    /\ d_pc = "returned"
    /\ d_args.refresh /\ d_args.verify_remote /\ ~d_args.offline
    /\ CacheReady
    /\ Len(d_log) = 1
    /\ d_log[1].op = "curl" /\ d_log[1].outcome = "ok"
    /\ d_file.data = "fetched"

CurlRuns ==
    Cardinality({k \in 1..Len(d_log) :
                    d_log[k].op = "curl" /\ d_log[k].outcome # "not_found"})
\* the curl runs that exited with an error or left no content
CurlFailures ==
    Cardinality({k \in 1..Len(d_log) :
                    /\ d_log[k].op = "curl" /\ d_log[k].outcome # "not_found"
                    /\ ~(d_log[k].outcome = "ok" /\ d_log[k].non_empty)})
CurlWasMissing ==
    \E k \in 1..Len(d_log) : d_log[k].op = "curl" /\ d_log[k].outcome = "not_found"
InFallback == d_pc = "urllib" \/ OpsOf("urlretrieve") > 0
\* the last network operation was a transfer that failed or left no content
LastTransferFailed ==
    /\ d_log # <<>>
    /\ IsTransfer(d_log[Len(d_log)])
    /\ ~(d_log[Len(d_log)].outcome = "ok" /\ d_log[Len(d_log)].non_empty)
ZeroByteFile == d_file.exists /\ d_file.size = 0

DownloadBounded ==
    /\ OpsOf("curl") <= 4
    /\ OpsOf("urlretrieve") <= 3
    /\ InFallback => CurlWasMissing /\ CurlFailures < 4
    /\ CurlFailures = 4 => d_pc = "raised" /\ ~InFallback
    /\ d_pc = "returned" => d_file.exists /\ d_file.size > 0 /\ d_error = "none"
    /\ d_pc = "raised" => d_error # "none"
    /\ LastTransferFailed => ~ZeroByteFile

\* C22: the call makes at most 4 curl invocations and 3 urlretrieve calls,
\* reaches urlretrieve only after curl was found missing and never after 4
\* failed curl runs, returns only with an existing non-empty destination,
\* leaves no zero-byte destination after a failed transfer, and always
\* ends, returning or raising
C22_BoundedRetriesAndTermination ==
    /\ []DownloadBounded
    /\ <>CallEnded

\* the destination was missing, curl ran 4 times, the last run exiting
\* successfully with an empty file, and the call has raised with no file left
C22_Witness ==
    /\ d_pc = "raised"
    /\ ~d_file0.exists
    /\ CurlRuns = 4
    /\ d_log[4].outcome = "ok" /\ ~d_log[4].non_empty
    /\ d_error = "RuntimeError: Downloaded file is empty"
    /\ d_file = NoFile

====
